---- MODULE Spec2Model ----
(***************************************************************************)
(* Lead scoring dashboard (src/application.py): one browser session of the *)
(* Streamlit script.  Every user interaction re-runs the script top to     *)
(* bottom: the cached model is fetched, then main() renders the page the   *)
(* sidebar radio selects.  One action below is one script run.             *)
(*                                                                         *)
(* Probabilities are fixed-point numbers in units of 1/ProbOne, so that    *)
(* 0.5 is the integer PROBABILITY_THRESHOLD and 1.0 is ProbOne.            *)
(***************************************************************************)
EXTENDS Integers, Sequences, FiniteSets

VARIABLES model, session_state, view

vars == <<model, session_state, view>>

\* ---------------------------------------------------------------- bounds
MaxRows == 2

\* ------------------------------------------------------------- constants
\* PROBABILITY_THRESHOLD = 0.5, in units of 1/ProbOne
PROBABILITY_THRESHOLD == 1

ProbOne == 2 * PROBABILITY_THRESHOLD

Probabilities == 0 .. ProbOne

CustomerId == "Customer ID"

PurchaseProbability == "Purchase Probability"

\* stands for the feature columns the pre-trained classifier was trained on
Feature == "Feature"

\* ------------------------------------------------------------ input data
CustomerIds == {1, 2}

Features == {0, 1}

\* a CSV may carry any number in a column called Purchase Probability
UploadedScores == {ProbOne + 1}

ColumnLayouts ==
    { <<CustomerId, Feature>>,
      <<CustomerId>>,
      <<Feature, PurchaseProbability>> }

Range(s) == {s[i] : i \in DOMAIN s}

ColumnValues(c) ==
    IF c = CustomerId THEN CustomerIds
    ELSE IF c = Feature THEN Features
    ELSE UploadedScores

RowsOver(cols) ==
    {r \in [cols -> CustomerIds \cup Features \cup UploadedScores] :
        \A c \in cols : r[c] \in ColumnValues(c)}

\* the tables pd.read_csv can return: a column layout and up to MaxRows rows
DataFrames ==
    UNION {
        {[columns |-> layout, rows |-> rs] :
            rs \in UNION {[1 .. n -> RowsOver(Range(layout))] : n \in 0 .. MaxRows}}
        : layout \in ColumnLayouts }

\* a file the uploader hands to pd.read_csv: parseable or not
MalformedCsv == [parses |-> FALSE, df |-> [columns |-> <<>>, rows |-> <<>>]]

CsvFiles == {[parses |-> TRUE, df |-> d] : d \in DataFrames} \cup {MalformedCsv}

\* the classifiers load_model can return: a score for every feature value.
\* Taken up to renaming of the feature values: a classifier that scores them
\* in the other order, or all alike, scores some table here the same way.
Models == {s \in [Features -> Probabilities] : \A f, g \in Features : f < g => s[f] < s[g]}

NoModel == [loaded |-> FALSE, score |-> [f \in Features |-> 0]]

\* ------------------------------------------------------- dataframe helpers
\* mutation: an existing column is left as it is (setdefault)
AssignColumnIfAbsent(df, name, values) ==
    [columns |-> IF name \in Range(df.columns) THEN df.columns
                 ELSE Append(df.columns, name),
     rows |-> [i \in 1 .. Len(df.rows) |->
                 [c \in Range(df.columns) \cup {name} |->
                     IF c \in Range(df.columns) THEN df.rows[i][c] ELSE values[i]]]]

\* mutation: the column is concatenated even when it is already there
AssignColumnAppend(df, name, values) ==
    [columns |-> Append(df.columns, name),
     rows |-> [i \in 1 .. Len(df.rows) |->
                 [c \in Range(df.columns) \cup {name} |->
                     IF c = name THEN values[i] ELSE df.rows[i][c]]]]

\* mutation: rows repeating an earlier row are dropped (drop_duplicates)
AssignColumnDropDuplicates(df, name, values) ==
    LET full == [i \in 1 .. Len(df.rows) |->
                    [c \in Range(df.columns) \cup {name} |->
                        IF c = name THEN values[i] ELSE df.rows[i][c]]]
        first == {i \in DOMAIN full : \A j \in 1 .. i - 1 : full[j] # full[i]}
        nth(k) == CHOOSE i \in first : Cardinality({j \in first : j < i}) = k - 1
    IN  [columns |-> IF name \in Range(df.columns) THEN df.columns
                     ELSE Append(df.columns, name),
         rows |-> [k \in 1 .. Cardinality(first) |-> full[nth(k)]]]

\* df[name] = values
AssignColumn(df, name, values) ==
    [columns |-> IF name \in Range(df.columns) THEN df.columns
                 ELSE Append(df.columns, name),
     rows |-> [i \in 1 .. Len(df.rows) |->
                 [c \in Range(df.columns) \cup {name} |->
                     IF c = name THEN values[i] ELSE df.rows[i][c]]]]

\* predict_model(model, data=df, raw_score=True)['prediction_score_1']
PredictModel(m, df) ==
    [i \in 1 .. Len(df.rows) |-> m.score[df.rows[i][Feature]]]

\* predict_model raises when the feature columns are missing; on a table
\* with no rows the library may raise or return no scores (either)
PredictRaises(df, emptyRaises) ==
    \/ Feature \notin Range(df.columns)
    \/ Len(df.rows) = 0 /\ emptyRaises

\* df[['Customer ID', 'Purchase Probability']]
SelectColumns(df) ==
    [i \in 1 .. Len(df.rows) |->
        [c \in {CustomerId, PurchaseProbability} |-> df.rows[i][c]]]

SelectRaises(df) ==
    ~ ({CustomerId, PurchaseProbability} \subseteq Range(df.columns))

\* mutation: the comparison is strict
IsHighValueStrict(r) == r[PurchaseProbability] > PROBABILITY_THRESHOLD

\* df[df['Purchase Probability'] >= PROBABILITY_THRESHOLD]
IsHighValue(r) == r[PurchaseProbability] >= PROBABILITY_THRESHOLD

FilterHighValue(rows) == SelectSeq(rows, IsHighValue)

\* mutation: ascending=True
InsertAscending(sorted, r) ==
    LET k == Cardinality({i \in DOMAIN sorted :
                 sorted[i][PurchaseProbability] <= r[PurchaseProbability]})
    IN  SubSeq(sorted, 1, k) \o <<r>> \o SubSeq(sorted, k + 1, Len(sorted))

\* .sort_values(by='Purchase Probability', ascending=False)
InsertDescending(sorted, r) ==
    LET k == Cardinality({i \in DOMAIN sorted :
                 sorted[i][PurchaseProbability] >= r[PurchaseProbability]})
    IN  SubSeq(sorted, 1, k) \o <<r>> \o SubSeq(sorted, k + 1, Len(sorted))

RECURSIVE SortValuesDescending(_)
SortValuesDescending(rows) ==
    IF rows = <<>> THEN <<>>
    ELSE InsertDescending(SortValuesDescending(SubSeq(rows, 1, Len(rows) - 1)),
                          rows[Len(rows)])

HighValueDf(df) ==
    [columns |-> df.columns,
     rows |-> SortValuesDescending(FilterHighValue(df.rows))]

RECURSIVE SumScores(_)
SumScores(rows) ==
    IF rows = <<>> THEN 0
    ELSE rows[1][PurchaseProbability] + SumScores(Tail(rows))

\* high_value_df['Purchase Probability'].mean(), kept as sum and count
Mean(rows) == [sum |-> SumScores(rows), n |-> Len(rows)]

\* mutation: the guard lets the empty selection through
NonEmptyOrEmpty(df) == Len(df.rows) >= 0

\* if len(high_value_df) > 0
NonEmpty(df) == Len(df.rows) > 0

\* ---------------------------------------------------------- session state
EmptySession == [k \in {} |-> TRUE]

Has(ss, k) == k \in DOMAIN ss

SetItem(ss, k, v) == [x \in DOMAIN ss \cup {k} |-> IF x = k THEN v ELSE ss[x]]

\* ------------------------------------------------------------ what a run shows
NoMean == [sum |-> 0, n |-> 0]

BlankView ==
    [content |-> "none", file |-> FALSE, clicked |-> FALSE,
     success |-> FALSE, error |-> FALSE, info |-> "none",
     scoringShown |-> FALSE, scoring |-> <<>>,
     countShown |-> FALSE, count |-> 0,
     avgShown |-> FALSE, avg |-> NoMean,
     priorityShown |-> FALSE, priority |-> <<>>,
     exception |-> "none"]

\* widgets exist only where the previous run rendered them
SidebarRendered == view.content # "none"

UploaderRendered == view.content = "Upload Data"

ButtonRendered == view.content = "Lead Analysis"

\* model = load_cached_model(): cached once it has loaded
LoadCachedModel ==
    IF model.loaded THEN {model}
    ELSE {[loaded |-> TRUE, score |-> s] : s \in Models}

Init ==
    /\ model = NoModel
    /\ session_state = EmptySession
    /\ view = BlankView

\* load_model raises: the run ends before main() with an unhandled exception
LoadModelFails ==
    /\ ~ model.loaded
    /\ view' = [BlankView EXCEPT !.exception = "load_model"]
    /\ UNCHANGED <<model, session_state>>

\* mutation: the flag is set before the file is read
UploadStepFlagFirst(ss, file) ==
    IF file.parses
    THEN SetItem(SetItem(ss, "df", file.df), "file_uploaded", TRUE)
    ELSE SetItem(ss, "file_uploaded", TRUE)

\* the try block of the upload page
UploadStep(ss, file) ==
    IF file.parses
    THEN SetItem(SetItem(ss, "df", file.df), "file_uploaded", TRUE)
    ELSE ss

\* page == "Upload Data", no file in the uploader
UploadPage ==
    /\ \E m \in LoadCachedModel : model' = m
    /\ view' = [BlankView EXCEPT !.content = "Upload Data"]
    /\ UNCHANGED session_state

\* page == "Upload Data", uploaded_file is not None
UploadFile ==
    /\ UploaderRendered
    /\ \E m \in LoadCachedModel : model' = m
    /\ \E file \in CsvFiles :
        /\ session_state' = UploadStep(session_state, file)
        /\ view' = [BlankView EXCEPT !.content = "Upload Data",
                                     !.file = TRUE,
                                     !.success = file.parses,
                                     !.error = ~ file.parses]

\* mutation: the page is not gated on the upload
LeadAnalysisUngated(ss) == TRUE

\* elif page == "Lead Analysis" and 'file_uploaded' in st.session_state
LeadAnalysisGate(ss) == Has(ss, "file_uploaded")

\* elif page == "High-Value Leads" and 'df_with_predictions' in st.session_state
HighValueGate(ss) == Has(ss, "df_with_predictions")

\* the else branch: st.info unless a file was uploaded
Fallback(ss) ==
    [BlankView EXCEPT !.content = "Fallback",
                      !.info = IF Has(ss, "file_uploaded") THEN "none"
                               ELSE "please_upload"]

\* page == "Lead Analysis"
LeadAnalysisPage ==
    /\ SidebarRendered
    /\ \E m \in LoadCachedModel : model' = m
    /\ \E clicked \in {c \in BOOLEAN : c => ButtonRendered}, emptyRaises \in BOOLEAN :
        IF ~ LeadAnalysisGate(session_state)
        THEN /\ ~ clicked
             /\ view' = Fallback(session_state)
             /\ UNCHANGED session_state
        ELSE LET shown == [BlankView EXCEPT !.content = "Lead Analysis",
                                            !.clicked = clicked]
             IN  IF ~ Has(session_state, "df")
                 THEN /\ view' = [shown EXCEPT !.exception = "KeyError"]
                      /\ UNCHANGED session_state
                 ELSE LET df == session_state["df"]
                          scored == AssignColumn(df, PurchaseProbability,
                                                 PredictModel(model', df))
                      IN  IF ~ clicked
                          THEN /\ view' = shown
                               /\ UNCHANGED session_state
                          ELSE IF PredictRaises(df, emptyRaises)
                          THEN /\ view' = [shown EXCEPT !.exception = "predict_model"]
                               /\ UNCHANGED session_state
                          ELSE /\ session_state' =
                                     SetItem(SetItem(session_state, "df", scored),
                                             "df_with_predictions", scored)
                               /\ view' =
                                     IF SelectRaises(scored)
                                     THEN [shown EXCEPT !.exception = "KeyError"]
                                     ELSE [shown EXCEPT
                                             !.scoringShown = TRUE,
                                             !.scoring = SelectColumns(scored)]

\* page == "High-Value Leads"
HighValuePage ==
    /\ SidebarRendered
    /\ \E m \in LoadCachedModel : model' = m
    /\ UNCHANGED session_state
    /\ IF ~ HighValueGate(session_state)
       THEN view' = Fallback(session_state)
       ELSE LET high_value_df == HighValueDf(session_state["df_with_predictions"])
                cards == [BlankView EXCEPT
                            !.content = "High-Value Leads",
                            !.countShown = TRUE,
                            !.count = Len(high_value_df.rows),
                            !.avgShown = NonEmpty(high_value_df),
                            !.avg = IF NonEmpty(high_value_df)
                                    THEN Mean(high_value_df.rows) ELSE NoMean]
            IN  view' =
                    IF ~ NonEmpty(high_value_df)
                    THEN [cards EXCEPT !.info = "no_high_value"]
                    ELSE IF SelectRaises(high_value_df)
                    THEN [cards EXCEPT !.exception = "KeyError"]
                    ELSE [cards EXCEPT !.priorityShown = TRUE,
                                       !.priority = SelectColumns(high_value_df)]

\* page == "Overview"
OverviewPage ==
    /\ SidebarRendered
    /\ \E m \in LoadCachedModel : model' = m
    /\ view' = [BlankView EXCEPT !.content = "Overview"]
    /\ UNCHANGED session_state

Next ==
    \/ LoadModelFails
    \/ UploadPage
    \/ UploadFile
    \/ LeadAnalysisPage
    \/ HighValuePage
    \/ OverviewPage

Spec == Init /\ [][Next]_vars

\* ------------------------------------------------------------------ claims
Predictions == session_state["df_with_predictions"]

CountIn(s, x) == Cardinality({i \in DOMAIN s : s[i] = x})

WithoutDerived(columns) == SelectSeq(columns, LAMBDA c : c # PurchaseProbability)

\* the step is a Generate Predictions run that got past predict_model
Generated ==
    /\ view'.content = "Lead Analysis"
    /\ view'.clicked
    /\ view'.exception # "predict_model"
    /\ Has(session_state, "df")
    /\ Has(session_state', "df_with_predictions")

\* C1: the HIGH-VALUE LEADS count shown is the number of rows of the scored
\* table whose Purchase Probability is at least the threshold (inclusive).
C1_CountIsRowsAtOrAboveThreshold ==
    view.countShown =>
        /\ Has(session_state, "df_with_predictions")
        /\ view.count =
             Cardinality({i \in DOMAIN Predictions.rows :
                 Predictions.rows[i][PurchaseProbability] >= PROBABILITY_THRESHOLD})

C1_Witness ==
    /\ view.countShown
    /\ view.count = 1
    /\ \E i \in DOMAIN Predictions.rows :
         Predictions.rows[i][PurchaseProbability] = PROBABILITY_THRESHOLD
    /\ \E i \in DOMAIN Predictions.rows :
         Predictions.rows[i][PurchaseProbability] < PROBABILITY_THRESHOLD

\* C2 (as claimed): no script run ends in an unhandled exception, whether
\* from load_cached_model, the upload step or Generate Predictions.
C2_NoUnhandledException == view.exception = "none"

\* C3: a Generate Predictions run keeps every row of the table it scores, in
\* order, and the Scoring Results table lists exactly its Customer IDs in order.
C3_ScoringKeepsRows ==
    [][Generated =>
        LET old == session_state["df"]
            new == session_state'["df_with_predictions"]
        IN  /\ Len(new.rows) = Len(old.rows)
            /\ \A i \in DOMAIN old.rows :
                 \A c \in Range(old.columns) \ {PurchaseProbability} :
                     new.rows[i][c] = old.rows[i][c]
            /\ view'.scoringShown =>
                 /\ Len(view'.scoring) = Len(old.rows)
                 /\ \A i \in DOMAIN old.rows :
                      view'.scoring[i][CustomerId] = old.rows[i][CustomerId]]_vars

C3_Witness ==
    /\ view.clicked
    /\ view.scoringShown
    /\ Len(view.scoring) = 2
    /\ view.scoring[1][CustomerId] = view.scoring[2][CustomerId]

\* C4: the mean is taken and shown only over a non-empty selection; when no
\* row reaches the threshold there is no AVG PROBABILITY card and no Priority
\* Leads table, and the 'No high-value leads found' message is shown.
C4_MeanOnlyOverNonEmptySelection ==
    view.content = "High-Value Leads" =>
        /\ Has(session_state, "df_with_predictions")
        /\ LET none == \A i \in DOMAIN Predictions.rows :
                   Predictions.rows[i][PurchaseProbability] < PROBABILITY_THRESHOLD
           IN  /\ view.avgShown => ~ none /\ view.avg.n > 0
               /\ none => /\ ~ view.avgShown
                          /\ ~ view.priorityShown
                          /\ view.info = "no_high_value"

C4_Witness ==
    /\ view.content = "High-Value Leads"
    /\ view.info = "no_high_value"
    /\ ~ view.avgShown
    /\ Len(Predictions.rows) > 0

\* C5: every Purchase Probability of a stored df_with_predictions is in [0,1].
C5_ProbabilityInUnitInterval ==
    Has(session_state, "df_with_predictions") =>
        /\ PurchaseProbability \in Range(Predictions.columns)
        /\ \A i \in DOMAIN Predictions.rows :
             /\ Predictions.rows[i][PurchaseProbability] >= 0
             /\ Predictions.rows[i][PurchaseProbability] <= ProbOne

C5_Witness ==
    /\ Has(session_state, "df_with_predictions")
    /\ Predictions.columns = <<Feature, PurchaseProbability>>
    /\ Len(Predictions.rows) > 0

\* C6: the Priority Leads table holds exactly the rows at or above the
\* threshold, each once, in non-increasing order of Purchase Probability.
C6_PriorityIsFilteredAndSorted ==
    view.priorityShown =>
        /\ Has(session_state, "df_with_predictions")
        /\ \A i, j \in DOMAIN view.priority :
             i < j => view.priority[i][PurchaseProbability]
                        >= view.priority[j][PurchaseProbability]
        /\ LET all == SelectColumns(Predictions)
           IN  /\ \A r \in Range(all) :
                    CountIn(view.priority, r) =
                        IF r[PurchaseProbability] >= PROBABILITY_THRESHOLD
                        THEN CountIn(all, r) ELSE 0
               /\ Range(view.priority) \subseteq Range(all)

C6_Witness ==
    /\ view.priorityShown
    /\ Len(view.priority) = 2
    /\ view.priority[1][PurchaseProbability] > view.priority[2][PurchaseProbability]
    /\ Predictions.rows[1][PurchaseProbability] < Predictions.rows[2][PurchaseProbability]

\* C7: a Generate Predictions run leaves the table with the columns it had
\* plus exactly one Purchase Probability column, however often it is clicked.
C7_OneDerivedColumn ==
    [][Generated =>
        LET old == session_state["df"].columns
            new == session_state'["df_with_predictions"].columns
        IN  /\ CountIn(new, PurchaseProbability) = 1
            /\ WithoutDerived(new) = WithoutDerived(old)
            /\ new = IF PurchaseProbability \in Range(old) THEN old
                     ELSE Append(old, PurchaseProbability)
            /\ session_state'["df"].columns = new]_vars

C7_Witness ==
    /\ view.clicked
    /\ view.scoringShown
    /\ Predictions.columns = <<CustomerId, Feature, PurchaseProbability>>
    /\ session_state["df"] = Predictions

\* C8 (as claimed): whenever the High-Value Leads page renders, the scored
\* table it reads is the scoring of the table now stored as 'df'.
C8_HighValueShowsCurrentUpload ==
    view.content = "High-Value Leads" =>
        /\ Has(session_state, "df")
        /\ Has(session_state, "df_with_predictions")
        /\ Feature \in Range(session_state["df"].columns)
        /\ Predictions = AssignColumn(session_state["df"], PurchaseProbability,
                                      PredictModel(model, session_state["df"]))

\* C9: predictions are stored only after an upload, the Lead Analysis
\* content is rendered only after an upload, and the High-Value Leads
\* content only after predictions were generated.
C9_UploadThenPredictThenView ==
    /\ Has(session_state, "df_with_predictions") =>
         Has(session_state, "file_uploaded") /\ Has(session_state, "df")
    /\ Has(session_state, "file_uploaded") <=> Has(session_state, "df")
    /\ view.content = "Lead Analysis" => Has(session_state, "file_uploaded")
    /\ view.content = "High-Value Leads" => Has(session_state, "df_with_predictions")

C9_Witness ==
    /\ view.content = "High-Value Leads"
    /\ view.countShown
    /\ Has(session_state, "file_uploaded")

\* C10: an upload whose CSV cannot be read shows an error and leaves the
\* session state as it was.
C10_FailedUploadKeepsSession ==
    [][(view'.content = "Upload Data" /\ view'.file /\ ~ view'.success) =>
        /\ view'.error
        /\ session_state' = session_state]_vars

C10_Witness ==
    /\ view.content = "Upload Data"
    /\ view.error
    /\ Has(session_state, "df_with_predictions")

====
